---- MODULE Spec2Model ----
(***************************************************************************)
(* Model of the YewChat client component (components/chat.rs): the Chat    *)
(* component's state, its constructor `create`, and its `update` handler   *)
(* for Msg::HandleMsg and Msg::SubmitMessage, together with the serde_json *)
(* wire codec the handler goes through.                                    *)
(*                                                                         *)
(* A Rust String is a sequence of one-character strings, so that JSON      *)
(* encoding, decoding, escaping, `format!` and `ends_with` are computed    *)
(* character by character.                                                 *)
(***************************************************************************)
EXTENDS Integers, Sequences, FiniteSets, TLC

\* ------------------------------------------------------------------------
\* Bounds of the model
\* ------------------------------------------------------------------------
\* Number of inbound frames the event bus delivers in one run.
MaxFrames == 3

\* Number of submit actions in one run.
MaxSubmits == 2

\* ------------------------------------------------------------------------
\* Characters and string helpers
\* ------------------------------------------------------------------------
Quote == "\""

Backslash == "\\"

\* Option<T>: None and Some(x), one record shape for both.
None == [some |-> FALSE, v |-> <<>>]

Some(x) == [some |-> TRUE, v |-> x]

\* Result<T, E> of a decoding step.
Err == [ok |-> FALSE, v |-> <<>>]

Ok(x) == [ok |-> TRUE, v |-> x]

\* The function f as an explicit table: each entry is computed once.
Table(f) == f @@ <<>>

\* F applied to the value of v, with v computed once.
Bind(v, F(_)) == CHOOSE y \in {F(x) : x \in {v}} : TRUE

\* Variant of EndsWith that finds the suffix anywhere in s.
EndsWith_contains(s, suffix) ==
    \E i \in 1..(Len(s) - Len(suffix) + 1) : SubSeq(s, i, i + Len(suffix) - 1) = suffix

\* str::ends_with
EndsWith(s, suffix) ==
    /\ Len(s) >= Len(suffix)
    /\ SubSeq(s, Len(s) - Len(suffix) + 1, Len(s)) = suffix

\* Concatenation of a sequence of strings.
RECURSIVE Concat(_)
Concat(ss) == IF ss = <<>> THEN <<>> ELSE Head(ss) \o Concat(Tail(ss))

\* ------------------------------------------------------------------------
\* serde_json serialisation (serde_json::to_string)
\* ------------------------------------------------------------------------
\* JSON escaping of one character inside a string literal.
EscapeChar(c) ==
    CASE c = Quote     -> <<Backslash, Quote>>
      [] c = Backslash -> <<Backslash, Backslash>>
      [] c = "\n"      -> <<Backslash, "n">>
      [] c = "\t"      -> <<Backslash, "t">>
      [] c = "\r"      -> <<Backslash, "r">>
      [] OTHER         -> <<c>>

RECURSIVE Escape(_)
Escape(s) == IF s = <<>> THEN <<>> ELSE EscapeChar(Head(s)) \o Escape(Tail(s))

\* A Rust String as a JSON string literal.
JsonString(s) == <<Quote>> \o Escape(s) \o <<Quote>>

\* Option<String> as JSON: null or a string literal.
JsonOptString(o) == IF o.some THEN JsonString(o.v) ELSE <<"n", "u", "l", "l">>

RECURSIVE JsonStringList(_)
JsonStringList(l) ==
    IF l = <<>> THEN <<>>
    ELSE IF Len(l) = 1 THEN JsonString(l[1])
    ELSE JsonString(Head(l)) \o <<",">> \o JsonStringList(Tail(l))

\* Option<Vec<String>> as JSON: null or an array of string literals.
JsonOptStringList(o) ==
    IF o.some THEN <<"[">> \o JsonStringList(o.v) \o <<"]">>
    ELSE <<"n", "u", "l", "l">>

\* Wire names of the struct fields (serde rename_all = "camelCase").
K_messageType == <<"m", "e", "s", "s", "a", "g", "e", "T", "y", "p", "e">>

K_dataArray == <<"d", "a", "t", "a", "A", "r", "r", "a", "y">>

K_data == <<"d", "a", "t", "a">>

K_from == <<"f", "r", "o", "m">>

K_message == <<"m", "e", "s", "s", "a", "g", "e">>

\* Wire names of the enum variants (serde rename_all = "lowercase").
T_users == <<"u", "s", "e", "r", "s">>

T_register == <<"r", "e", "g", "i", "s", "t", "e", "r">>

T_message == <<"m", "e", "s", "s", "a", "g", "e">>

\* enum MsgTypes
MsgTypes == {"Users", "Register", "Message"}

\* Serialize for MsgTypes: the lowercase tag.
MsgTypeTag(t) ==
    CASE t = "Users"    -> T_users
      [] t = "Register" -> T_register
      [] t = "Message"  -> T_message

\* struct WebSocketMessage { message_type, data_array, data }
WebSocketMessage(mt, da, d) == [message_type |-> mt, data_array |-> da, data |-> d]

\* serde_json::to_string(&WebSocketMessage): fields in declaration order.
ToStringWebSocketMessage(m) ==
    Concat(<< <<"{">>,
              JsonString(K_messageType), <<":">>, JsonString(MsgTypeTag(m.message_type)), <<",">>,
              JsonString(K_dataArray), <<":">>, JsonOptStringList(m.data_array), <<",">>,
              JsonString(K_data), <<":">>, JsonOptString(m.data),
              <<"}">> >>)

\* struct MessageData { from, message }
MessageData(f, m) == [from |-> f, message |-> m]

\* The JSON text of a {from, message} object, as the server puts it in the
\* data field of a `message` envelope.
ToStringMessageData(md) ==
    Concat(<< <<"{">>,
              JsonString(K_from), <<":">>, JsonString(md.from), <<",">>,
              JsonString(K_message), <<":">>, JsonString(md.message),
              <<"}">> >>)

\* ------------------------------------------------------------------------
\* serde_json parsing (serde_json::from_str), syntactic layer
\* ------------------------------------------------------------------------
\* JSON values of the grammar the wire protocol uses: null, string literals,
\* arrays and objects.  Any other token is a syntax error.
JNull == [t |-> "null", s |-> <<>>, items |-> <<>>]

JStr(s) == [t |-> "str", s |-> s, items |-> <<>>]

JArr(items) == [t |-> "arr", s |-> <<>>, items |-> items]

\* items of an object: its members [k, val] in document order.
JObj(members) == [t |-> "obj", s |-> <<>>, items |-> members]

ParseFail == [ok |-> FALSE, val |-> JNull, next |-> 0]

ParseOk(val, next) == [ok |-> TRUE, val |-> val, next |-> next]

Whitespace == {" ", "\n", "\t", "\r"}

\* Index of the first non-whitespace character at or after i.
RECURSIVE SkipWs(_, _)
SkipWs(s, i) ==
    IF i <= Len(s) /\ s[i] \in Whitespace THEN SkipWs(s, i + 1) ELSE i

\* The character an escape sequence \c stands for; "" when unsupported.
Unescape(c) ==
    CASE c = Quote     -> Quote
      [] c = Backslash -> Backslash
      [] c = "/"       -> "/"
      [] c = "n"       -> "\n"
      [] c = "t"       -> "\t"
      [] c = "r"       -> "\r"
      [] OTHER         -> ""

\* Characters that end a plain stretch of a string literal.
StringStops == {Quote, Backslash, "\n", "\t", "\r"}

\* Index of the first stop character at or after j; Len(s) + 1 if none.
NextStop(s, j) ==
    CHOOSE k \in j..(Len(s) + 1) :
        /\ k = Len(s) + 1 \/ s[k] \in StringStops
        /\ \A m \in j..(k - 1) : s[m] \notin StringStops

\* Body of a string literal, from the character after the opening quote:
\* plain stretches are copied whole, escapes are decoded one by one.
RECURSIVE ScanString(_, _, _)
ScanString(s, j, acc) ==
    Bind(NextStop(s, j), LAMBDA k :
        IF k > Len(s) THEN ParseFail
        ELSE IF s[k] = Quote THEN ParseOk(JStr(acc \o SubSeq(s, j, k - 1)), k + 1)
        ELSE IF s[k] = Backslash THEN
            IF k + 1 > Len(s) \/ Unescape(s[k + 1]) = "" THEN ParseFail
            ELSE ScanString(s, k + 2,
                     acc \o SubSeq(s, j, k - 1) \o <<Unescape(s[k + 1])>>)
        ELSE ParseFail)

RECURSIVE ParseValue(_, _)
RECURSIVE ParseElems(_, _, _)
RECURSIVE ParseMembers(_, _, _)

\* Elements of an array after the opening bracket, at least one.
ParseElems(s, i, acc) ==
    Bind(ParseValue(s, i), LAMBDA r :
        IF ~r.ok THEN ParseFail
        ELSE Bind(SkipWs(s, r.next), LAMBDA k :
            IF k > Len(s) THEN ParseFail
            ELSE IF s[k] = "," THEN ParseElems(s, k + 1, Append(acc, r.val))
            ELSE IF s[k] = "]" THEN ParseOk(JArr(Append(acc, r.val)), k + 1)
            ELSE ParseFail))

\* Members of an object after the opening brace, at least one.
ParseMembers(s, i, acc) ==
    Bind(SkipWs(s, i), LAMBDA j :
        IF j > Len(s) \/ s[j] # Quote THEN ParseFail
        ELSE Bind(ScanString(s, j + 1, <<>>), LAMBDA key :
            IF ~key.ok THEN ParseFail
            ELSE Bind(SkipWs(s, key.next), LAMBDA c :
                IF c > Len(s) \/ s[c] # ":" THEN ParseFail
                ELSE Bind(ParseValue(s, c + 1), LAMBDA r :
                    IF ~r.ok THEN ParseFail
                    ELSE Bind(SkipWs(s, r.next), LAMBDA k :
                        IF k > Len(s) THEN ParseFail
                        ELSE IF s[k] = ","
                             THEN ParseMembers(s, k + 1,
                                      Append(acc, [k |-> key.val.s, val |-> r.val]))
                        ELSE IF s[k] = "}"
                             THEN ParseOk(JObj(Append(acc, [k |-> key.val.s, val |-> r.val])),
                                          k + 1)
                        ELSE ParseFail)))))

ParseValue(s, i) ==
    Bind(SkipWs(s, i), LAMBDA j :
        IF j > Len(s) THEN ParseFail
        ELSE CASE s[j] = Quote -> ScanString(s, j + 1, <<>>)
               [] s[j] = "n" ->
                    IF j + 3 <= Len(s) /\ SubSeq(s, j, j + 3) = <<"n", "u", "l", "l">>
                    THEN ParseOk(JNull, j + 4) ELSE ParseFail
               [] s[j] = "[" ->
                    Bind(SkipWs(s, j + 1), LAMBDA k :
                        IF k <= Len(s) /\ s[k] = "]" THEN ParseOk(JArr(<<>>), k + 1)
                        ELSE ParseElems(s, k, <<>>))
               [] s[j] = "{" ->
                    Bind(SkipWs(s, j + 1), LAMBDA k :
                        IF k <= Len(s) /\ s[k] = "}" THEN ParseOk(JObj(<<>>), k + 1)
                        ELSE ParseMembers(s, k, <<>>))
               [] OTHER -> ParseFail)

\* A whole document: one value, then nothing but whitespace.
ParseJson(s) ==
    Bind(ParseValue(s, 1), LAMBDA r :
        IF r.ok /\ SkipWs(s, r.next) > Len(s) THEN Ok(r.val) ELSE Err)

\* ------------------------------------------------------------------------
\* serde_json parsing, typed layer (the derived Deserialize impls)
\* ------------------------------------------------------------------------
\* Deserialize for String
DeString(v) == IF v.t = "str" THEN Ok(v.s) ELSE Err

\* Deserialize for Option<String>
DeOptString(v) ==
    CASE v.t = "null" -> Ok(None)
      [] v.t = "str"  -> Ok(Some(v.s))
      [] OTHER        -> Err

\* Deserialize for Option<Vec<String>>
DeOptStringList(v) ==
    CASE v.t = "null" -> Ok(None)
      [] v.t = "arr" /\ \A i \in 1..Len(v.items) : v.items[i].t = "str" ->
            Ok(Some([i \in 1..Len(v.items) |-> v.items[i].s]))
      [] OTHER -> Err

\* The variant a lowercase tag names.
VariantOfTag(tag) ==
    CASE tag = T_users    -> Ok("Users")
      [] tag = T_register -> Ok("Register")
      [] tag = T_message  -> Ok("Message")
      [] OTHER            -> Err

\* Deserialize for MsgTypes: "tag", or the map form {"tag": null}.
DeMsgTypes(v) ==
    CASE v.t = "str" -> VariantOfTag(v.s)
      [] v.t = "obj" /\ Len(v.items) = 1 ->
            IF v.items[1].val.t = "null" THEN VariantOfTag(v.items[1].k) ELSE Err
      [] OTHER -> Err

\* Deserialize for WebSocketMessage from a JSON object: members in document
\* order; acc holds, per field, the value read so far.
RECURSIVE VisitWebSocketMessage(_, _, _)
VisitWebSocketMessage(members, i, acc) ==
    IF i > Len(members) THEN
        IF ~acc.message_type.some THEN Err
        ELSE Ok(WebSocketMessage(acc.message_type.v,
                                 IF acc.data_array.some THEN acc.data_array.v ELSE None,
                                 IF acc.data.some THEN acc.data.v ELSE None))
    ELSE LET key == members[i].k
             val == members[i].val
         IN CASE key = K_messageType ->
                   LET r == DeMsgTypes(val) IN
                   IF acc.message_type.some \/ ~r.ok THEN Err
                   ELSE VisitWebSocketMessage(members, i + 1,
                            [acc EXCEPT !.message_type = Some(r.v)])
              [] key = K_dataArray ->
                   LET r == DeOptStringList(val) IN
                   IF acc.data_array.some \/ ~r.ok THEN Err
                   ELSE VisitWebSocketMessage(members, i + 1,
                            [acc EXCEPT !.data_array = Some(r.v)])
              [] key = K_data ->
                   LET r == DeOptString(val) IN
                   IF acc.data.some \/ ~r.ok THEN Err
                   ELSE VisitWebSocketMessage(members, i + 1,
                            [acc EXCEPT !.data = Some(r.v)])
              [] OTHER -> VisitWebSocketMessage(members, i + 1, acc)

\* Deserialize for WebSocketMessage: a JSON object, or an array of the
\* three fields in declaration order.
DeWebSocketMessage(v) ==
    CASE v.t = "obj" ->
            VisitWebSocketMessage(v.items, 1,
                [message_type |-> None, data_array |-> None, data |-> None])
      [] v.t = "arr" /\ Len(v.items) = 3 ->
            LET mt == DeMsgTypes(v.items[1])
                da == DeOptStringList(v.items[2])
                d  == DeOptString(v.items[3])
            IN IF mt.ok /\ da.ok /\ d.ok
               THEN Ok(WebSocketMessage(mt.v, da.v, d.v)) ELSE Err
      [] OTHER -> Err

\* serde_json::from_str::<WebSocketMessage>
FromStrWebSocketMessage(s) ==
    Bind(ParseJson(s), LAMBDA r : IF r.ok THEN DeWebSocketMessage(r.v) ELSE Err)

\* Deserialize for MessageData from a JSON object.
RECURSIVE VisitMessageData(_, _, _)
VisitMessageData(members, i, acc) ==
    IF i > Len(members) THEN
        IF acc.from.some /\ acc.message.some
        THEN Ok(MessageData(acc.from.v, acc.message.v)) ELSE Err
    ELSE LET key == members[i].k
             r   == DeString(members[i].val)
         IN CASE key = K_from ->
                   IF acc.from.some \/ ~r.ok THEN Err
                   ELSE VisitMessageData(members, i + 1, [acc EXCEPT !.from = Some(r.v)])
              [] key = K_message ->
                   IF acc.message.some \/ ~r.ok THEN Err
                   ELSE VisitMessageData(members, i + 1, [acc EXCEPT !.message = Some(r.v)])
              [] OTHER -> VisitMessageData(members, i + 1, acc)

\* Deserialize for MessageData: a JSON object, or an array [from, message].
DeMessageData(v) ==
    CASE v.t = "obj" ->
            VisitMessageData(v.items, 1, [from |-> None, message |-> None])
      [] v.t = "arr" /\ Len(v.items) = 2 ->
            LET f == DeString(v.items[1])
                m == DeString(v.items[2])
            IN IF f.ok /\ m.ok THEN Ok(MessageData(f.v, m.v)) ELSE Err
      [] OTHER -> Err

\* serde_json::from_str::<MessageData>
FromStrMessageData(s) ==
    Bind(ParseJson(s), LAMBDA r : IF r.ok THEN DeMessageData(r.v) ELSE Err)

\* ------------------------------------------------------------------------
\* Inputs: display names, input texts and inbound frames
\* ------------------------------------------------------------------------
bob == <<"b", "o", "b">>

Bob == <<"B", "o", "b">>

dave == <<"d", "a", "v", "e">>

hi == <<"h", "i">>

yo == <<"y", "o">>

\* The display names the User context can hold.
Usernames == {bob, dave}

\* What the user can type into the input field.
InputTexts == {<<>>, hi}

\* Message bodies for the view: two that end in ".gif", and some that do not.
a_gif == <<"a", ".", "g", "i", "f">>

a_GIF == <<"a", ".", "G", "I", "F">>

a_gif_t == <<"a", ".", "g", "i", "f", ".", "t">>

gif == <<"g", "i", "f">>

dot_gif == <<".", "g", "i", "f">>

ViewSenders == {bob, Bob}

ViewBodies == {hi, a_gif, a_GIF, a_gif_t, gif, dot_gif}

\* The `message` envelopes of these senders and bodies.
ViewMessageEnvelopes ==
    Table([p \in ViewSenders \X ViewBodies |->
        ToStringWebSocketMessage(
            WebSocketMessage("Message", None,
                Some(ToStringMessageData(MessageData(p[1], p[2])))))])

ViewFrames == {ViewMessageEnvelopes[p] : p \in ViewSenders \X ViewBodies}

\* An input text that is itself the JSON of a {from, message} object.
J_bobhi == ToStringMessageData(MessageData(bob, hi))

\* What the user can type when the component's own sends are fed back to it.
EchoInputTexts == {<<>>, hi, J_bobhi}

\* Outcomes of the transport's non-blocking send.
TrySendResults == {"Ok", "Err"}

F_users1 == ToStringWebSocketMessage(WebSocketMessage("Users", Some(<<bob, dave>>), None))

F_users2 == ToStringWebSocketMessage(WebSocketMessage("Users", Some(<<dave, dave>>), None))

\* A `users` envelope with no dataArray.
F_usersNoArray == ToStringWebSocketMessage(WebSocketMessage("Users", None, None))

F_msg1 ==
    ToStringWebSocketMessage(
        WebSocketMessage("Message", None, Some(ToStringMessageData(MessageData(bob, hi)))))

F_msg2 ==
    ToStringWebSocketMessage(
        WebSocketMessage("Message", None, Some(ToStringMessageData(MessageData(dave, yo)))))

\* A `message` envelope with no data.
F_msgNoData == ToStringWebSocketMessage(WebSocketMessage("Message", None, None))

\* A `message` envelope whose data is plain text, not a {from, message} object.
F_msgPlain == ToStringWebSocketMessage(WebSocketMessage("Message", None, Some(hi)))

F_register == ToStringWebSocketMessage(WebSocketMessage("Register", None, Some(dave)))

\* A frame that is not JSON.
F_garbage == hi

\* A frame whose messageType names no variant.
F_unknownKind ==
    Concat(<< <<"{">>, JsonString(K_messageType), <<":">>, JsonString(<<"p", "i", "n", "g">>),
              <<"}">> >>)

\* The text frames the event bus can deliver.
Frames ==
    {F_users1, F_users2, F_usersNoArray, F_msg1, F_msg2, F_msgNoData, F_msgPlain,
     F_register, F_garbage, F_unknownKind}

\* ------------------------------------------------------------------------
\* State of the component
\* ------------------------------------------------------------------------
VARIABLES
    phase,        \* "unmounted" before Chat::create, "running" after it
    username,     \* User context: the local display name
    users,        \* Chat.users: Vec<UserProfile>
    messages,     \* Chat.messages: Vec<MessageData>
    chat_input,   \* value of the <input> element behind Chat.chat_input
    wss_tx,       \* the texts passed to Chat.wss.tx.try_send so far
    send_res,     \* outcome of the last try_send ("none" before the first)
    render,       \* what the last call of update returned
    view,         \* what the last call of view produced
    panicked,     \* an unwrap() has panicked
    delivered,    \* history: frames passed to update as Msg::HandleMsg
    submitted     \* history: input text read by each Msg::SubmitMessage

vars ==
    <<phase, username, users, messages, chat_input, wss_tx, send_res, render, view,
      panicked, delivered, submitted>>

\* struct UserProfile { name, avatar }
UserProfile(n, a) == [name |-> n, avatar |-> a]

AvatarPrefix ==
    <<
       "h", "t", "t", "p", "s", ":", "/", "/", "a", "p", "i", ".",
       "d", "i", "c", "e", "b", "e", "a", "r", ".", "c", "o", "m",
       "/", "8", ".", "x", "/", "a", "d", "v", "e", "n", "t", "u",
       "r", "e", "r", "-", "n", "e", "u", "t", "r", "a", "l", "/",
       "s", "v", "g", "?", "s", "e", "e", "d", "=" >>

\* format!("https://api.dicebear.com/8.x/adventurer-neutral/svg?seed={}", u)
SeededAvatarUrl(u) == AvatarPrefix \o u

\* Option::unwrap_or_default on Option<Vec<String>>
UnwrapOrDefault(o) == IF o.some THEN o.v ELSE <<>>

\* Variant of UsersFromMessage that drops a name already seen in the list.
UsersFromMessage_dedup(names) ==
    LET keep == {i \in 1..Len(names) : \A j \in 1..(i - 1) : names[j] # names[i]}
        RECURSIVE Pick(_)
        Pick(i) ==
            IF i > Len(names) THEN <<>>
            ELSE IF i \in keep
                 THEN <<UserProfile(names[i], SeededAvatarUrl(names[i]))>> \o Pick(i + 1)
                 ELSE Pick(i + 1)
    IN Pick(1)

\* users_from_message.iter().map(|u| UserProfile {..}).collect()
UsersFromMessage(names) ==
    [i \in 1..Len(names) |-> UserProfile(names[i], SeededAvatarUrl(names[i]))]

\* Variant of PushMessage that inserts at the front.
PushMessage_front(log, md) == <<md>> \o log

\* Variant of PushMessage that overwrites the last entry.
PushMessage_overwrite(log, md) ==
    IF log = <<>> THEN <<md>> ELSE [log EXCEPT ![Len(log)] = md]

\* Variant of PushMessage that skips an entry the log already holds.
PushMessage_dedup(log, md) ==
    IF \E i \in 1..Len(log) : log[i] = md THEN log ELSE Append(log, md)

\* self.messages.push(message_data)
PushMessage(log, md) == Append(log, md)

\* Variant of RegisterEnvelope that puts the name in data_array.
RegisterEnvelope_inArray(name) == WebSocketMessage("Register", Some(<<name>>), None)

\* The envelope Chat::create sends.
RegisterEnvelope(name) == WebSocketMessage("Register", None, Some(name))

\* Variant of SubmitEnvelope that sends the text as a one-element `users` list.
SubmitEnvelope_asUsers(text) == WebSocketMessage("Users", Some(<<text>>), None)

\* Variant of SubmitEnvelope that sends no data for an empty input.
SubmitEnvelope_emptyAsNone(text) ==
    WebSocketMessage("Message", None, IF text = <<>> THEN None ELSE Some(text))

\* The envelope Msg::SubmitMessage sends.
SubmitEnvelope(text) == WebSocketMessage("Message", None, Some(text))

\* wss.tx.clone().try_send(text): one more send attempt on the channel.
TrySend(tx, text) == Append(tx, text)

\* input.set_value("")
ClearedInput == <<>>

\* Lower-case form of the letters the names use.
LowerChar(c) == IF c = "B" THEN "b" ELSE IF c = "D" THEN "d" ELSE c

\* Variant of IsSelf that compares the names without regard to case.
IsSelf_ignoreCase(name, cur_username) ==
    /\ Len(name) = Len(cur_username)
    /\ \A i \in 1..Len(name) : LowerChar(name[i]) = LowerChar(cur_username[i])

\* let is_self = u.name == cur_username / m.from == cur_username
IsSelf(name, cur_username) == name = cur_username

\* Variant of AvatarFor that derives the URL from the sender's name without
\* looking the sender up.
AvatarFor_seeded(us, from) == SeededAvatarUrl(from)

\* self.users.iter().find(|u| u.name == m.from).map(|u| u.avatar.clone())
\*     .unwrap_or_default()
AvatarFor(us, from) ==
    LET hits == {i \in 1..Len(us) : us[i].name = from} IN
    IF hits = {} THEN <<>>
    ELSE us[CHOOSE i \in hits : \A j \in hits : i <= j].avatar

\* let alignment = if is_self { "justify-end" } else { "justify-start" }
Alignment(is_self) == IF is_self THEN "justify-end" ELSE "justify-start"

DotGif == <<".", "g", "i", "f">>

\* m.message.ends_with(".gif")
IsImage(body) == EndsWith(body, DotGif)

\* One entry of the users pane.
UserEntry(u, cur_username) ==
    [name |-> u.name, avatar |-> u.avatar, is_self |-> IsSelf(u.name, cur_username)]

\* One bubble of the messages pane: an <img> for an image body, a <span>
\* for any other.
MessageBubble(m, us, cur_username) ==
    [from |-> m.from,
     is_self |-> IsSelf(m.from, cur_username),
     avatar |-> AvatarFor(us, m.from),
     alignment |-> Alignment(IsSelf(m.from, cur_username)),
     tag |-> IF IsImage(m.message) THEN "img" ELSE "span",
     content |-> m.message]

\* Chat::view: the users pane and the messages pane, each in Vec order.
View(us, ms, cur_username) ==
    [users |-> [i \in 1..Len(us) |-> UserEntry(us[i], cur_username)],
     messages |-> [k \in 1..Len(ms) |-> MessageBubble(ms[k], us, cur_username)]]

\* Nothing rendered yet.
NoView == [users |-> <<>>, messages |-> <<>>]

Init ==
    /\ phase = "unmounted"
    /\ username \in Usernames
    /\ users = <<>>
    /\ messages = <<>>
    /\ chat_input = <<>>
    /\ wss_tx = <<>>
    /\ send_res = "none"
    /\ render = FALSE
    /\ view = NoView
    /\ panicked = FALSE
    /\ delivered = <<>>
    /\ submitted = <<>>

\* Variant of Create that starts the directory with the local user.
Create_selfInDirectory ==
    /\ phase = "unmounted"
    /\ wss_tx' = TrySend(wss_tx, ToStringWebSocketMessage(RegisterEnvelope(username)))
    /\ send_res' \in TrySendResults
    /\ users' = UsersFromMessage(<<username>>)
    /\ messages' = <<>>
    /\ chat_input' = <<>>
    /\ phase' = "running"
    /\ view' = View(users', messages', username)
    /\ UNCHANGED <<username, render, panicked, delivered, submitted>>

\* Chat::create, followed by the first render.
Create ==
    /\ phase = "unmounted"
    /\ wss_tx' = TrySend(wss_tx, ToStringWebSocketMessage(RegisterEnvelope(username)))
    /\ send_res' \in TrySendResults
    /\ users' = <<>>
    /\ messages' = <<>>
    /\ chat_input' = <<>>
    /\ phase' = "running"
    /\ view' = View(users', messages', username)
    /\ UNCHANGED <<username, render, panicked, delivered, submitted>>

\* The texts the component can pass to try_send.
WireTexts ==
    {ToStringWebSocketMessage(RegisterEnvelope(u)) : u \in Usernames}
        \cup {ToStringWebSocketMessage(SubmitEnvelope(x)) : x \in InputTexts \cup EchoInputTexts}

\* The texts of WireTexts decoded as the server decodes them.
DecodedWire == Table([t \in WireTexts |-> FromStrWebSocketMessage(t)])

\* serde_json::from_str(&s) of update, tabulated over the frames the event
\* bus can deliver: those of the server and the component's own sends.
DecodedFrame ==
    Table([s \in Frames \cup WireTexts \cup ViewFrames |-> FromStrWebSocketMessage(s)])

\* The data strings of the frames that carry one.
FrameData ==
    {DecodedFrame[s].v.data.v :
        s \in {f \in DOMAIN DecodedFrame : DecodedFrame[f].ok /\ DecodedFrame[f].v.data.some}}

\* serde_json::from_str(&msg.data.unwrap()) of update, tabulated likewise.
DecodedData == Table([d \in FrameData |-> FromStrMessageData(d)])

\* Variant of HandleMsgResult whose Users arm extends the directory instead
\* of replacing it.
HandleMsgResult_merge(s, us, ms) ==
    LET msg == DecodedFrame[s]
        panic == [panic |-> TRUE, users |-> us, messages |-> ms, ret |-> FALSE]
    IN IF ~msg.ok THEN panic
       ELSE CASE msg.v.message_type = "Users" ->
                   [panic |-> FALSE,
                    users |-> us \o UsersFromMessage(UnwrapOrDefault(msg.v.data_array)),
                    messages |-> ms, ret |-> TRUE]
              [] msg.v.message_type = "Message" ->
                   IF ~msg.v.data.some THEN panic
                   ELSE LET message_data == DecodedData[msg.v.data.v] IN
                        IF ~message_data.ok THEN panic
                        ELSE [panic |-> FALSE, users |-> us,
                              messages |-> PushMessage(ms, message_data.v), ret |-> TRUE]
              [] OTHER ->
                   [panic |-> FALSE, users |-> us, messages |-> ms, ret |-> FALSE]

\* Variant of HandleMsgResult whose Message arm returns false.
HandleMsgResult_noRender(s, us, ms) ==
    LET msg == DecodedFrame[s]
        panic == [panic |-> TRUE, users |-> us, messages |-> ms, ret |-> FALSE]
    IN IF ~msg.ok THEN panic
       ELSE CASE msg.v.message_type = "Users" ->
                   [panic |-> FALSE,
                    users |-> UsersFromMessage(UnwrapOrDefault(msg.v.data_array)),
                    messages |-> ms, ret |-> TRUE]
              [] msg.v.message_type = "Message" ->
                   IF ~msg.v.data.some THEN panic
                   ELSE LET message_data == DecodedData[msg.v.data.v] IN
                        IF ~message_data.ok THEN panic
                        ELSE [panic |-> FALSE, users |-> us,
                              messages |-> PushMessage(ms, message_data.v), ret |-> FALSE]
              [] OTHER ->
                   [panic |-> FALSE, users |-> us, messages |-> ms, ret |-> FALSE]

\* Variant of HandleMsgResult that logs an undecodable data string as the
\* body of a message without sender.
HandleMsgResult_fallback(s, us, ms) ==
    LET msg == DecodedFrame[s]
        panic == [panic |-> TRUE, users |-> us, messages |-> ms, ret |-> FALSE]
    IN IF ~msg.ok THEN panic
       ELSE CASE msg.v.message_type = "Users" ->
                   [panic |-> FALSE,
                    users |-> UsersFromMessage(UnwrapOrDefault(msg.v.data_array)),
                    messages |-> ms, ret |-> TRUE]
              [] msg.v.message_type = "Message" ->
                   IF ~msg.v.data.some THEN panic
                   ELSE LET message_data == DecodedData[msg.v.data.v] IN
                        [panic |-> FALSE, users |-> us,
                         messages |-> PushMessage(ms,
                             IF message_data.ok THEN message_data.v
                             ELSE MessageData(<<>>, msg.v.data.v)),
                         ret |-> TRUE]
              [] OTHER ->
                   [panic |-> FALSE, users |-> us, messages |-> ms, ret |-> FALSE]

\* Variant of HandleMsgResult whose Register arm adds the registered name
\* to the directory.
HandleMsgResult_registerAdds(s, us, ms) ==
    LET msg == DecodedFrame[s]
        panic == [panic |-> TRUE, users |-> us, messages |-> ms, ret |-> FALSE]
    IN IF ~msg.ok THEN panic
       ELSE CASE msg.v.message_type = "Users" ->
                   [panic |-> FALSE,
                    users |-> UsersFromMessage(UnwrapOrDefault(msg.v.data_array)),
                    messages |-> ms, ret |-> TRUE]
              [] msg.v.message_type = "Message" ->
                   IF ~msg.v.data.some THEN panic
                   ELSE LET message_data == DecodedData[msg.v.data.v] IN
                        IF ~message_data.ok THEN panic
                        ELSE [panic |-> FALSE, users |-> us,
                              messages |-> PushMessage(ms, message_data.v), ret |-> TRUE]
              [] OTHER ->
                   [panic |-> FALSE,
                    users |-> IF msg.v.data.some
                              THEN us \o UsersFromMessage(<<msg.v.data.v>>) ELSE us,
                    messages |-> ms, ret |-> TRUE]

\* The effect of Chat::update(Msg::HandleMsg(s)) on (users, messages), its
\* return value, and whether one of its unwrap() calls panics.
HandleMsgResult(s, us, ms) ==
    LET msg == DecodedFrame[s]
        panic == [panic |-> TRUE, users |-> us, messages |-> ms, ret |-> FALSE]
    IN IF ~msg.ok THEN panic
       ELSE CASE msg.v.message_type = "Users" ->
                   [panic |-> FALSE,
                    users |-> UsersFromMessage(UnwrapOrDefault(msg.v.data_array)),
                    messages |-> ms, ret |-> TRUE]
              [] msg.v.message_type = "Message" ->
                   IF ~msg.v.data.some THEN panic
                   ELSE LET message_data == DecodedData[msg.v.data.v] IN
                        IF ~message_data.ok THEN panic
                        ELSE [panic |-> FALSE, users |-> us,
                              messages |-> PushMessage(ms, message_data.v), ret |-> TRUE]
              [] OTHER ->
                   [panic |-> FALSE, users |-> us, messages |-> ms, ret |-> FALSE]

\* Chat::update, Msg::HandleMsg(s), followed by a render when it returns
\* true.  A panicking unwrap() ends the program:
\* the fields keep the values they had and no later event is handled.
HandleMsg(s) ==
    /\ phase = "running"
    /\ ~panicked
    /\ Len(delivered) < MaxFrames
    /\ delivered' = Append(delivered, s)
    /\ LET r == HandleMsgResult(s, users, messages) IN
          /\ panicked' = r.panic
          /\ users' = r.users
          /\ messages' = r.messages
          /\ render' = IF r.panic THEN render ELSE r.ret
          /\ view' = IF ~r.panic /\ r.ret THEN View(r.users, r.messages, username)
                     ELSE view
    /\ UNCHANGED <<phase, username, chat_input, wss_tx, send_res, submitted>>

\* Variant of SubmitMessage that also logs the sent text locally.
SubmitMessage_echo ==
    /\ phase = "running"
    /\ ~panicked
    /\ Len(submitted) < MaxSubmits
    /\ wss_tx' = TrySend(wss_tx, ToStringWebSocketMessage(SubmitEnvelope(chat_input)))
    /\ send_res' \in TrySendResults
    /\ messages' = PushMessage(messages, MessageData(username, chat_input))
    /\ chat_input' = ClearedInput
    /\ render' = FALSE
    /\ submitted' = Append(submitted, chat_input)
    /\ UNCHANGED <<phase, username, users, view, panicked, delivered>>

\* Variant of SubmitMessage that clears the input only when the send succeeds.
SubmitMessage_clearOnOk ==
    /\ phase = "running"
    /\ ~panicked
    /\ Len(submitted) < MaxSubmits
    /\ wss_tx' = TrySend(wss_tx, ToStringWebSocketMessage(SubmitEnvelope(chat_input)))
    /\ send_res' \in TrySendResults
    /\ chat_input' = IF send_res' = "Ok" THEN ClearedInput ELSE chat_input
    /\ render' = FALSE
    /\ submitted' = Append(submitted, chat_input)
    /\ UNCHANGED <<phase, username, users, messages, view, panicked, delivered>>

\* Chat::update, Msg::SubmitMessage.  The submit button and the input
\* element are rendered together, so chat_input.cast() is Some whenever the
\* click callback can fire.
SubmitMessage ==
    /\ phase = "running"
    /\ ~panicked
    /\ Len(submitted) < MaxSubmits
    /\ wss_tx' = TrySend(wss_tx, ToStringWebSocketMessage(SubmitEnvelope(chat_input)))
    /\ send_res' \in TrySendResults
    /\ chat_input' = ClearedInput
    /\ render' = FALSE
    /\ submitted' = Append(submitted, chat_input)
    /\ UNCHANGED <<phase, username, users, messages, view, panicked, delivered>>

\* The user edits the input field.
TypeInput(text) ==
    /\ phase = "running"
    /\ ~panicked
    /\ text # chat_input
    /\ chat_input' = text
    /\ UNCHANGED <<phase, username, users, messages, wss_tx, send_res, render, view,
                   panicked, delivered, submitted>>

Next ==
    \/ Create
    \/ \E s \in Frames : HandleMsg(s)
    \/ SubmitMessage
    \/ \E text \in InputTexts : TypeInput(text)

Spec == Init /\ [][Next]_vars

\* The component with its own sends looped back: every frame the event bus
\* delivers is a text the component passed to try_send earlier.
NextEcho ==
    \/ Create
    \/ \E i \in 1..Len(wss_tx) : HandleMsg(wss_tx[i])
    \/ SubmitMessage
    \/ \E text \in EchoInputTexts : TypeInput(text)

SpecEcho == Init /\ [][NextEcho]_vars

\* The component receiving messages only, of senders and bodies that
\* exercise every branch of the projection.
NextView ==
    \/ Create
    \/ \E s \in ViewFrames : HandleMsg(s)

SpecView == Init /\ [][NextView]_vars

\* ------------------------------------------------------------------------
\* Vocabulary of the properties
\* ------------------------------------------------------------------------
\* Senders and bodies of the well-formed `message` envelopes among Frames.
SenderNames == {bob, dave}

Bodies == {hi, yo}

\* The `message` envelope the server broadcasts for sender f and body m.
MessageEnvelopes ==
    Table([p \in SenderNames \X Bodies |->
        ToStringWebSocketMessage(
            WebSocketMessage("Message", None,
                Some(ToStringMessageData([from |-> p[1], message |-> p[2]]))))])

\* s is a well-formed `message` envelope.
IsMessageEnvelope(s) == \E p \in SenderNames \X Bodies : MessageEnvelopes[p] = s

\* The {from, message} payload a well-formed `message` envelope carries.
PayloadOf(s) ==
    LET p == CHOOSE q \in SenderNames \X Bodies : MessageEnvelopes[q] = s
    IN [from |-> p[1], message |-> p[2]]

\* The payloads of the well-formed `message` envelopes of d, in order.
RECURSIVE DeliveredPayloads(_)
DeliveredPayloads(d) ==
    IF d = <<>> THEN <<>>
    ELSE LET rest == DeliveredPayloads(SubSeq(d, 1, Len(d) - 1))
             s == d[Len(d)]
         IN IF IsMessageEnvelope(s) THEN Append(rest, PayloadOf(s)) ELSE rest

IsPrefix(a, b) == Len(a) <= Len(b) /\ SubSeq(b, 1, Len(a)) = a

\* The name lists of the `users` envelopes among Frames that carry one.
UsersEnvelopes ==
    Table([l \in {<<bob, dave>>, <<dave, dave>>} |->
        ToStringWebSocketMessage(WebSocketMessage("Users", Some(l), None))])

IsUsersEnvelope(s) == \E l \in DOMAIN UsersEnvelopes : UsersEnvelopes[l] = s

NamesOf(s) == CHOOSE l \in DOMAIN UsersEnvelopes : UsersEnvelopes[l] = s

\* The frame the last HandleMsg handled.
LastDelivered == delivered[Len(delivered)]

\* A step of update handling Msg::HandleMsg(s).
Delivers(s) == delivered' = Append(delivered, s)

\* A step of update handling Msg::SubmitMessage.
Submits == Len(submitted') = Len(submitted) + 1

\* ------------------------------------------------------------------------
\* Properties
\* ------------------------------------------------------------------------
\* C1: the Message Log is exactly the sequence of {from, message} payloads of
\* the `message` envelopes delivered so far, in delivery order, and every
\* step leaves the earlier log as a prefix of the later one, whatever `users`
\* envelopes and submit actions are interleaved.
C1_LogIsDeliveryOrder ==
    /\ [](messages = DeliveredPayloads(delivered))
    /\ [][IsPrefix(messages, messages')]_vars

\* Two different messages logged in delivery order, with a `users` envelope
\* between them and a submit somewhere in the run.
C1_Witness ==
    /\ delivered = <<F_msg2, F_users1, F_msg1>>
    /\ Len(submitted) >= 1
    /\ messages = <<[from |-> dave, message |-> yo], [from |-> bob, message |-> hi]>>

\* C2: after a valid `users` envelope with name list L the Presence Directory
\* has one profile per element of L, in the order of L, duplicates kept, each
\* avatar being the seeded URL of its name; this also holds when the same L
\* was applied just before, so re-applying L yields the same directory.
C2_UsersEnvelopeSetsDirectory ==
    (delivered # <<>> /\ IsUsersEnvelope(LastDelivered)) =>
        LET L == NamesOf(LastDelivered) IN
        /\ Len(users) = Len(L)
        /\ \A i \in 1..Len(L) :
              /\ users[i].name = L[i]
              /\ users[i].avatar = AvatarPrefix \o L[i]

\* The list with a duplicate name applied twice in a row.
C2_Witness ==
    /\ Len(delivered) >= 2
    /\ delivered[Len(delivered)] = F_users2
    /\ delivered[Len(delivered) - 1] = F_users2
    /\ Len(users) = 2
    /\ users[1] = users[2]
    /\ users[1].name = dave

\* The names of the latest `users` envelope of d (none: the empty list).
RECURSIVE LatestUsersNames(_)
LatestUsersNames(d) ==
    IF d = <<>> THEN <<>>
    ELSE IF IsUsersEnvelope(d[Len(d)]) THEN NamesOf(d[Len(d)])
    ELSE IF d[Len(d)] = F_usersNoArray THEN <<>>
    ELSE LatestUsersNames(SubSeq(d, 1, Len(d) - 1))

\* C3: the Presence Directory is a function of the most recently delivered
\* `users` envelope alone and is empty before the first one; envelopes of
\* other kinds and submit actions in between do not influence it.
C3_DirectoryFromLatestUsers ==
    LET L == LatestUsersNames(delivered) IN
    users = [i \in 1..Len(L) |-> [name |-> L[i], avatar |-> AvatarPrefix \o L[i]]]

\* bob was in an earlier `users` envelope, a message came in between, and the
\* latest `users` envelope no longer lists bob.
C3_Witness ==
    /\ delivered = <<F_users1, F_msg1, F_users2>>
    /\ Len(submitted) >= 1
    /\ \A i \in 1..Len(users) : users[i].name # bob

\* C4: applying a well-formed `message` envelope whose data decodes to
\* {from: f, message: m} makes the Message Log one longer, its new last entry
\* is {from: f, message: m}, and the Presence Directory is unchanged.
C4_MessageEnvelopeAppendsOne ==
    [][\A p \in SenderNames \X Bodies :
          Delivers(MessageEnvelopes[p]) =>
              /\ Len(messages') = Len(messages) + 1
              /\ messages'[Len(messages')] = [from |-> p[1], message |-> p[2]]
              /\ users' = users]_vars

\* A message from bob has just been appended to a non-empty log while the
\* directory holds profiles.
C4_Witness ==
    /\ Len(delivered) = 3
    /\ LastDelivered = F_msg1
    /\ users # <<>>
    /\ Len(messages) = 2
    /\ messages[2] = [from |-> bob, message |-> hi]

\* Number of well-formed `message` envelopes among the first i delivered.
Rank(i) == Cardinality({k \in 1..i : IsMessageEnvelope(delivered[k])})

\* C5: the Message Log is not deduplicated: its length is the number of
\* well-formed `message` envelopes delivered, and an envelope delivered twice
\* has two equal entries, one at the position of each delivery.
C5_LogNotDeduplicated ==
    /\ Len(messages) = Rank(Len(delivered))
    /\ \A i, j \in 1..Len(delivered) :
          (i < j /\ delivered[i] = delivered[j] /\ IsMessageEnvelope(delivered[i])) =>
              /\ Rank(i) < Rank(j)
              /\ messages[Rank(i)] = messages[Rank(j)]

\* The same envelope delivered twice with a `users` envelope in between.
C5_Witness ==
    /\ delivered = <<F_msg1, F_users1, F_msg1>>
    /\ messages = <<[from |-> bob, message |-> hi], [from |-> bob, message |-> hi]>>

\* C6: outbound actions do not change local state: a submit leaves the
\* Presence Directory and the Message Log as they are whatever the send
\* returns, construction leaves both empty, and the Message Log changes only
\* in a step that handles an inbound frame.
C6_OutboundLeavesStateAlone ==
    [][/\ Submits => (users' = users /\ messages' = messages)
       /\ (phase = "unmounted" /\ phase' = "running") =>
              (users' = <<>> /\ messages' = <<>>)
       /\ messages' # messages => \E s \in Frames : Delivers(s)]_vars

\* A rejected submit of "hi" after a directory and a log were built; the log
\* holds no entry with that body.
C6_Witness ==
    /\ Len(submitted) >= 1
    /\ submitted[Len(submitted)] = hi
    /\ send_res = "Err"
    /\ users # <<>>
    /\ messages # <<>>
    /\ \A k \in 1..Len(messages) : messages[k].message # hi

\* C7: construction attempts one `register` envelope with data = the local
\* name and no dataArray; it is the first send of the session, and no later
\* send is a `register` envelope, whether or not the registration succeeded.
C7_RegisterOnceAtConstruction ==
    /\ phase = "unmounted" => wss_tx = <<>>
    /\ phase = "running" =>
          /\ Len(wss_tx) >= 1
          /\ DecodedWire[wss_tx[1]] =
                Ok([message_type |-> "Register", data_array |-> None,
                    data |-> Some(username)])
          /\ \A i \in 2..Len(wss_tx) :
                /\ DecodedWire[wss_tx[i]].ok
                /\ DecodedWire[wss_tx[i]].v.message_type # "Register"

\* Inbound frames, among them a `register` envelope, and two submits have
\* followed the registration.
C7_Witness ==
    /\ phase = "running"
    /\ username = dave
    /\ Len(wss_tx) = 3
    /\ Len(delivered) >= 2
    /\ \E i \in 1..Len(delivered) : delivered[i] = F_register

\* C8: a submit attempts exactly one send, of a `message` envelope whose data
\* is the text the input field holds at that moment, with no dataArray; an
\* empty input is sent as data = "".
C8_SubmitSendsCurrentInput ==
    [][Submits =>
          /\ Len(wss_tx') = Len(wss_tx) + 1
          /\ SubSeq(wss_tx', 1, Len(wss_tx)) = wss_tx
          /\ DecodedWire[wss_tx'[Len(wss_tx')]] =
                Ok([message_type |-> "Message", data_array |-> None,
                    data |-> Some(chat_input)])]_vars

\* "hi" was submitted, then the empty input.
C8_Witness ==
    /\ submitted = <<hi, <<>> >>
    /\ Len(wss_tx) = 3
    /\ DecodedWire[wss_tx[3]].v.data = Some(<<>>)
    /\ DecodedWire[wss_tx[2]].v.data = Some(hi)

\* C9: after a submit the input field is empty whatever try_send returned;
\* nothing but a submit sends after construction, so a rejected text is never
\* sent again and the session has made 1 + k send attempts after k submits.
C9_InputClearedNoRetry ==
    /\ [](phase = "running" => Len(wss_tx) = 1 + Len(submitted))
    /\ [][Submits => chat_input' = <<>>]_vars
    /\ [][(phase = "running" /\ ~Submits) => wss_tx' = wss_tx]_vars

\* The second submit, of "hi", was rejected; the input is empty and frames
\* were handled in the run.
C9_Witness ==
    /\ send_res = "Err"
    /\ Len(submitted) = 2
    /\ submitted[2] = hi
    /\ chat_input = <<>>
    /\ Len(wss_tx) = 3
    /\ Len(delivered) >= 1

\* The frames whose payload is malformed for their kind.
MalformedForKind == {F_usersNoArray, F_msgNoData, F_msgPlain}

\* C10: an inbound envelope whose payload is malformed for its kind is a
\* decode error and no crash, and leaves the Presence Directory and the
\* Message Log unchanged.
C10_MalformedPayloadIsHarmless ==
    [][\A s \in MalformedForKind :
          Delivers(s) => (~panicked' /\ users' = users /\ messages' = messages)]_vars

\* The frames whose decoding fails: no JSON, an unknown messageType, and a
\* `message` envelope whose data is not a {from, message} object.
UndecodableFrames == {F_garbage, F_unknownKind, F_msgPlain}

\* C11: a decode failure is fatal to the handling of that frame only: the
\* frame leaves the Presence Directory and the Message Log as they were, and
\* a well-formed frame delivered after it is still handled.
C11_DecodeFailureOnlyDropsFrame ==
    /\ [][\A s \in UndecodableFrames :
             Delivers(s) => (users' = users /\ messages' = messages)]_vars
    /\ []((/\ delivered # <<>>
           /\ LastDelivered \in UndecodableFrames
           /\ Len(delivered) < MaxFrames)
              => \A s \in {F_users1, F_msg1} : ENABLED HandleMsg(s))

\* The JSON text of {from: f, message: m} for the senders and bodies above.
MessageDataTexts ==
    Table([p \in SenderNames \X Bodies |->
        ToStringMessageData([from |-> p[1], message |-> p[2]])])

\* text is the JSON encoding of a {from, message} object.
IsMessageDataText(text) == \E p \in SenderNames \X Bodies : MessageDataTexts[p] = text

\* The {from, message} object such a text encodes.
MessageDataOf(text) ==
    LET p == CHOOSE q \in SenderNames \X Bodies : MessageDataTexts[q] = text
    IN [from |-> p[1], message |-> p[2]]

\* The i-th send is a `message` envelope.
IsSentMessage(i) ==
    /\ DecodedWire[wss_tx[i]].ok
    /\ DecodedWire[wss_tx[i]].v.message_type = "Message"

C13_SentEnvelopesCarryDataOnly ==
    \A i \in 1..Len(wss_tx) :
        /\ DecodedWire[wss_tx[i]].ok
        /\ DecodedWire[wss_tx[i]].v.message_type \in {"Register", "Message"}
        /\ DecodedWire[wss_tx[i]].v.data.some
        /\ ~DecodedWire[wss_tx[i]].v.data_array.some

\* The registration and two submits, the first of them with an empty input,
\* were sent and frames were handled.
C13_Witness ==
    /\ Len(wss_tx) = 3
    /\ submitted = << <<>>, hi >>
    /\ send_res = "Ok"
    /\ Len(delivered) >= 1

\* C14: for every entry of the Message Log the projected avatar is the
\* seeded URL of the sender when the sender's name is in the current Presence
\* Directory and the empty placeholder otherwise, so a sender's avatar is the
\* same URL whenever the sender is present.
C14_AvatarSeededOrEmpty ==
    phase = "running" =>
        /\ Len(view.messages) = Len(messages)
        /\ \A k \in 1..Len(messages) :
              view.messages[k].avatar =
                  IF \E i \in 1..Len(users) : users[i].name = messages[k].from
                  THEN AvatarPrefix \o messages[k].from
                  ELSE <<>>

\* bob and dave have each sent a message; the latest `users` envelope lists
\* dave only, so bob's bubble has the placeholder and dave's the seeded URL.
C14_Witness ==
    /\ delivered = <<F_msg1, F_msg2, F_users2>>
    /\ view.messages[1].from = bob
    /\ view.messages[1].avatar = <<>>
    /\ view.messages[2].avatar = AvatarPrefix \o dave

\* C15: a handled event that changes the Presence Directory or the Message
\* Log makes update return true; the events for which update returns false,
\* submits and inbound `register` envelopes, change neither; so after every
\* event the last rendered view is the projection of the current state.
C15_ViewNeverStale ==
    /\ [][(users' # users \/ messages' # messages) => render' = TRUE]_vars
    /\ [][(Submits \/ Delivers(F_register)) =>
             (render' = FALSE /\ users' = users /\ messages' = messages)]_vars
    /\ [](phase = "running" => view = View(users, messages, username))

\* A directory and a log were built and a submit, for which update returned
\* false, came last; the view shows the one logged message.
C15_Witness ==
    /\ delivered = <<F_users1, F_msg2>>
    /\ Len(submitted) = 2
    /\ render = FALSE
    /\ Len(view.users) = 2
    /\ Len(view.messages) = 1
    /\ view.messages[1].content = yo

\* C16: a logged message is projected as `self` (aligned to the end) exactly
\* when its sender is the same string as the local name, letter case
\* included, and as `other` (aligned to the start) otherwise; whatever the
\* mix of the two, the i-th bubble shows the i-th entry of the Message Log.
C16_SelfIsExactNameMatch ==
    phase = "running" =>
        /\ Len(view.messages) = Len(messages)
        /\ \A k \in 1..Len(messages) :
              /\ view.messages[k].from = messages[k].from
              /\ view.messages[k].content = messages[k].message
              /\ view.messages[k].is_self = (messages[k].from = username)
              /\ view.messages[k].alignment =
                    IF messages[k].from = username THEN "justify-end" ELSE "justify-start"

\* For the local name bob: a message of Bob, one of bob, one of Bob again.
C16_Witness ==
    /\ phase = "running"
    /\ username = bob
    /\ Len(view.messages) = 3
    /\ view.messages[1].from = Bob /\ view.messages[1].alignment = "justify-start"
    /\ view.messages[2].from = bob /\ view.messages[2].alignment = "justify-end"
    /\ view.messages[3].from = Bob /\ ~view.messages[3].is_self

\* The last four characters of b are . g i f
LastFourAreDotGif(b) ==
    /\ Len(b) >= 4
    /\ b[Len(b) - 3] = "."
    /\ b[Len(b) - 2] = "g"
    /\ b[Len(b) - 1] = "i"
    /\ b[Len(b)] = "f"

\* C17: a message body is shown as an image exactly when its last four
\* characters are the literal .gif; a body ending in .GIF, one with .gif
\* followed by more characters and one shorter than four characters are
\* shown as text.
C17_ImageIffDotGifSuffix ==
    phase = "running" =>
        \A k \in 1..Len(messages) :
            view.messages[k].tag =
                IF LastFourAreDotGif(messages[k].message) THEN "img" ELSE "span"

\* Bodies a.GIF, a.gif.t and a.gif: text, text, image.
C17_Witness ==
    /\ Len(messages) = 3
    /\ messages[1].message = a_GIF /\ view.messages[1].tag = "span"
    /\ messages[2].message = a_gif_t /\ view.messages[2].tag = "span"
    /\ messages[3].message = a_gif /\ view.messages[3].tag = "img"

\* C18: an inbound `register` envelope is ignored: delivering it changes
\* neither the Presence Directory nor the Message Log, sends nothing, and
\* leaves the component handling the envelopes that follow: a `message`
\* envelope delivered after it is logged.
C18_InboundRegisterIgnored ==
    /\ [][Delivers(F_register) =>
             /\ users' = users
             /\ messages' = messages
             /\ wss_tx' = wss_tx
             /\ send_res' = send_res
             /\ view' = view
             /\ ~panicked']_vars
    /\ [][(\E k \in 1..Len(delivered) : delivered[k] = F_register) =>
             /\ \A s \in {F_msg1, F_msg2} :
                   Delivers(s) => messages' = Append(messages, PayloadOf(s))
             /\ \A s \in {F_users1, F_users2} :
                   Delivers(s) =>
                       /\ Len(users') = Len(NamesOf(s))
                       /\ \A i \in 1..Len(users') : users'[i].name = NamesOf(s)[i]]_vars

\* A `register` envelope between a `users` and a `message` envelope.
C18_Witness ==
    /\ delivered = <<F_users1, F_register, F_msg1>>
    /\ Len(users) = 2
    /\ messages = <<MessageData(bob, hi)>>
    /\ Len(wss_tx) = 1
    /\ ~panicked

\* d holds an envelope of kind `users`.
HasUsersEnvelope(d) ==
    \E k \in 1..Len(d) : IsUsersEnvelope(d[k]) \/ d[k] = F_usersNoArray

\* C19: right after construction the Presence Directory and the Message Log
\* are empty, whether the registration send succeeded or failed; the local
\* user is in the directory only once a `users` envelope with its name has
\* been delivered; a message delivered before any `users` envelope is logged
\* and projected with the empty avatar.
C19_EmptyAfterConstruction ==
    phase = "running" =>
        /\ delivered = <<>> =>
              /\ users = <<>> /\ messages = <<>>
              /\ view.users = <<>> /\ view.messages = <<>>
        /\ (\E i \in 1..Len(users) : users[i].name = username) =>
              \E k \in 1..Len(delivered) :
                  /\ IsUsersEnvelope(delivered[k])
                  /\ \E i \in 1..Len(NamesOf(delivered[k])) :
                        NamesOf(delivered[k])[i] = username
        /\ ~HasUsersEnvelope(delivered) =>
              /\ Len(view.messages) = Len(messages)
              /\ \A k \in 1..Len(messages) :
                    /\ view.messages[k].from = messages[k].from
                    /\ view.messages[k].avatar = <<>>

\* The registration send failed and the first envelope is bob's own message.
C19_Witness ==
    /\ phase = "running"
    /\ username = bob
    /\ send_res = "Err"
    /\ delivered = <<F_msg1>>
    /\ users = <<>>
    /\ messages = <<MessageData(bob, hi)>>
    /\ view.messages[1].avatar = <<>>

====
